---- MODULE Spec2Model ----
(***************************************************************************)
(* FracLib: the Frac value type (whole, numerator, denominator) of         *)
(* src/src/frac.cpp and its operators, modelled as a state machine over    *)
(* one Frac object x and the operations a program applies to it.           *)
(*                                                                         *)
(* C++ int is modelled as a two's-complement integer of IntBits bits.      *)
(* Signed overflow is undefined behaviour in C++: an unchecked product,    *)
(* sum or difference is modelled as wrapping (what the generated imul/add  *)
(* instructions do), and the one place where the optimiser is entitled to  *)
(* use the undefinedness, (a * b) / b != a in willMultiplicationOverflow,  *)
(* depends on the build, Debug or Release, that build.sh is asked for, and *)
(* on the code the optimiser generates for the operator that calls it.     *)
(***************************************************************************)
EXTENDS Integers, Sequences, FiniteSets, TLC

VARIABLES build, x, pre, op, rhs, res, err, flag, out, call

vars == <<build, x, pre, op, rhs, res, err, flag, out, call>>

(***************************************************************************)
(* Fixed-width int                                                         *)
(***************************************************************************)
IntBits == 8

TwoPow[k \in 0..16] == IF k = 0 THEN 1 ELSE 2 * TwoPow[k - 1]

INT_MAX == TwoPow[IntBits - 1] - 1

INT_MIN == -TwoPow[IntBits - 1]

Int32 == INT_MIN..INT_MAX

InRange(v) == INT_MIN <= v /\ v <= INT_MAX

\* the value an int holds after an operation whose exact result is v
Wrap(v) == ((v - INT_MIN) % TwoPow[IntBits]) + INT_MIN

Abs(v) == IF v < 0 THEN -v ELSE v

\* C++ integer division and remainder truncate toward zero
TruncDiv(a, b) ==
    IF (a < 0) = (b < 0) THEN Abs(a) \div Abs(b) ELSE -(Abs(a) \div Abs(b))

TruncMod(a, b) == a - b * TruncDiv(a, b)

Builds == {"Debug", "Release"}

\* the code generated for one operator: a Release build folds (a * b) / b
\* to a, and where it also inlines the constructor into the operator it
\* drops the constructor's zero test of a product it takes for non-zero
Codegen(bld) == IF bld = "Debug" THEN {"Debug"} ELSE {"Release", "ReleaseInlined"}

(***************************************************************************)
(* Utilities                                                               *)
(***************************************************************************)
willMultiplicationOverflow(bld, a, b) ==
    IF a = 0 \/ b = 0 THEN FALSE
    ELSE IF a = -1 /\ b = INT_MIN THEN TRUE
    ELSE IF b = -1 /\ a = INT_MIN THEN TRUE
    ELSE IF bld # "Debug" THEN FALSE  \* (a * b) / b folded to a
    ELSE LET result == Wrap(a * b) IN TruncDiv(result, b) # a

willAdditionOverflow(a, b) ==
    IF b > 0 /\ a > INT_MAX - b THEN TRUE
    ELSE IF b < 0 /\ a < INT_MIN - b THEN TRUE
    ELSE FALSE

willSubtractionOverflow(a, b) ==
    IF b < 0 /\ a > INT_MAX + b THEN TRUE
    ELSE IF b > 0 /\ a < INT_MIN + b THEN TRUE
    ELSE FALSE

(***************************************************************************)
(* The value type and the outcome of an operation                          *)
(***************************************************************************)
MkFrac(w, n, d) == [whole |-> w, numerator |-> n, denominator |-> d]

\* stands for "no Frac": nothing returned, or no Frac operand
Nothing == MkFrac(0, 0, 0)

ZERO_DIVISOR_ERROR == "ZeroDivisor"

OVERFLOW_ERROR == "Overflow"

INVALID_STRING_PARAMETER_ERROR == "InvalidFormat"

\* abnormal termination: an integer division by zero, or INT_MIN / -1
SIGFPE == "SIGFPE"

Ok(f) == [err |-> "none", f |-> f]

Throw(e) == [err |-> e, f |-> Nothing]

\* a mutating member throws e and leaves the receiver holding f
ThrowAt(e, f) == [err |-> e, f |-> f]

\* the operation never returns: its loop makes no progress
HANG == "Hang"

Hardware == {"x86", "arm"}

\* a / b or a % b whose result C++ leaves undefined
DivUndefined(a, b) == b = 0 \/ (a = INT_MIN /\ b = -1)

\* x86 raises a divide error there; arm's sdiv yields 0 for b = 0 and wraps
\* INT_MIN / -1, and the remainder is computed as a - (a / b) * b
HwDiv(a, b) == IF b = 0 THEN 0 ELSE Wrap(TruncDiv(a, b))

HwMod(a, b) == Wrap(a - HwDiv(a, b) * b)

StdAbs(v) == Wrap(Abs(v))

(***************************************************************************)
(* simplify                                                                *)
(***************************************************************************)
RECURSIVE gcdLoop(_, _, _)
\* the while (true) loop of simplify: [err, gcd]
gcdLoop(hw, a, b) ==
    IF a > b
    THEN IF DivUndefined(a, b) /\ hw = "x86" THEN [err |-> SIGFPE, gcd |-> 0]
         ELSE LET a2 == HwMod(a, b) IN
              IF a2 = 0 THEN [err |-> "none", gcd |-> b]
              ELSE IF a2 = a THEN [err |-> HANG, gcd |-> 0]
              ELSE gcdLoop(hw, a2, b)
    ELSE IF DivUndefined(b, a) /\ hw = "x86" THEN [err |-> SIGFPE, gcd |-> 0]
         ELSE LET b2 == HwMod(b, a) IN
              IF b2 = 0 THEN [err |-> "none", gcd |-> a]
              ELSE IF b2 = b THEN [err |-> HANG, gcd |-> 0]
              ELSE gcdLoop(hw, a, b2)

\* the fold of the numerator into the whole part, lines 726-733
simplifyFold(f) ==
    LET w1 == Wrap(f.whole + HwDiv(f.numerator, f.denominator))
        n1 == HwMod(f.numerator, f.denominator)
        n2 == IF n1 < 0 /\ w1 # 0 THEN Wrap(n1 + StdAbs(f.denominator)) ELSE n1
        w2 == IF n1 < 0 /\ w1 # 0 /\ n2 > 0 THEN Wrap(w1 - 1) ELSE w1
    IN  MkFrac(w2, n2, f.denominator)

\* the division by the gcd and the sign of the denominator, lines 755-763
simplifyReduce(hw, f, gcd) ==
    IF hw = "x86" /\ (DivUndefined(f.numerator, gcd) \/ DivUndefined(f.denominator, gcd))
    THEN Throw(SIGFPE)
    ELSE LET n == HwDiv(f.numerator, gcd)
             d == HwDiv(f.denominator, gcd)
         IN  IF d < 0 THEN Ok(MkFrac(f.whole, Wrap(-n), Wrap(-d)))
             ELSE Ok(MkFrac(f.whole, n, d))

simplify(hw, f) ==
    IF f.denominator = 0 THEN Ok(f)
    ELSE IF f.numerator = 0 THEN Ok(MkFrac(0, 0, 1))
    ELSE IF hw = "x86" /\ DivUndefined(f.numerator, f.denominator) THEN Throw(SIGFPE)
    ELSE LET g == simplifyFold(f)
             l == gcdLoop(hw, StdAbs(g.numerator), StdAbs(g.denominator))
         IN  IF l.err # "none" THEN Throw(l.err)
             ELSE simplifyReduce(hw, g, l.gcd)

(***************************************************************************)
(* Constructors                                                            *)
(***************************************************************************)
FracDefault == MkFrac(0, 0, 1)

FracInt(n) == Ok(MkFrac(0, n, 1))

\* Frac(int n, int d, bool isSimplifying = false) with the flag left false
FracND(n, d) ==
    IF d = 0 THEN Throw(ZERO_DIVISOR_ERROR) ELSE Ok(MkFrac(0, n, d))

\* Frac(int w, int n, int d, bool isSimplifying = false) with the flag left false
FracWND(w, n, d) ==
    IF d = 0 THEN Throw(ZERO_DIVISOR_ERROR) ELSE Ok(MkFrac(w, n, d))

\* the optional simplify() that ends both constructors
FracSimplifying(hw, o, isSimplifying) ==
    IF o.err = "none" /\ isSimplifying THEN simplify(hw, o.f) ELSE o

FracCopy(other) == Ok(other)

\* return Frac(n, a * b) once willMultiplicationOverflow(a, b) has passed: with
\* a and b non-zero the inlined constructor takes the product for non-zero
ReturnFrac(bld, n, a, b) ==
    IF Wrap(a * b) = 0 /\ a # 0 /\ b # 0 /\ bld = "ReleaseInlined"
    THEN Ok(MkFrac(0, n, 0))
    ELSE FracND(n, Wrap(a * b))

(***************************************************************************)
(* Basic arithmetic operators (this op other), lines 116-217               *)
(***************************************************************************)
operatorPlus_Frac(bld, this, other) ==
    IF \/ willMultiplicationOverflow(bld, this.numerator, other.denominator)
       \/ willMultiplicationOverflow(bld, other.numerator, this.denominator)
       \/ willMultiplicationOverflow(bld, this.denominator, other.denominator)
       \/ willAdditionOverflow(Wrap(this.numerator * other.denominator),
                               Wrap(other.numerator * this.denominator))
    THEN Throw(OVERFLOW_ERROR)
    ELSE ReturnFrac(bld,
                    Wrap(Wrap(this.numerator * other.denominator)
                         + Wrap(other.numerator * this.denominator)),
                    this.denominator, other.denominator)

operatorPlus_int(bld, this, value) ==
    IF willMultiplicationOverflow(bld, this.denominator, value)
    THEN Throw(OVERFLOW_ERROR)
    ELSE IF willAdditionOverflow(this.numerator, Wrap(this.denominator * value))
    THEN Throw(OVERFLOW_ERROR)
    ELSE FracND(Wrap(this.numerator + Wrap(this.denominator * value)), this.denominator)

operatorMinus_Frac(bld, this, other) ==
    IF \/ willMultiplicationOverflow(bld, this.numerator, other.denominator)
       \/ willMultiplicationOverflow(bld, this.denominator, other.numerator)
       \/ willMultiplicationOverflow(bld, this.denominator, other.denominator)
    THEN Throw(OVERFLOW_ERROR)
    ELSE IF willSubtractionOverflow(Wrap(this.numerator * other.denominator),
                                    Wrap(this.denominator * other.numerator))
    THEN Throw(OVERFLOW_ERROR)
    ELSE ReturnFrac(bld,
                    Wrap(Wrap(this.numerator * other.denominator)
                         - Wrap(this.denominator * other.numerator)),
                    this.denominator, other.denominator)

operatorMinus_int(bld, this, value) ==
    IF willMultiplicationOverflow(bld, this.denominator, value)
    THEN Throw(OVERFLOW_ERROR)
    ELSE IF willSubtractionOverflow(this.numerator, Wrap(this.denominator * value))
    THEN Throw(OVERFLOW_ERROR)
    ELSE FracND(Wrap(this.numerator - Wrap(this.denominator * value)), this.denominator)

operatorTimes_Frac(bld, this, other) ==
    IF \/ willMultiplicationOverflow(bld, this.numerator, other.numerator)
       \/ willMultiplicationOverflow(bld, this.denominator, other.denominator)
    THEN Throw(OVERFLOW_ERROR)
    ELSE ReturnFrac(bld, Wrap(this.numerator * other.numerator),
                    this.denominator, other.denominator)

operatorTimes_int(bld, this, value) ==
    IF willMultiplicationOverflow(bld, this.numerator, value)
    THEN Throw(OVERFLOW_ERROR)
    ELSE FracND(Wrap(this.numerator * value), this.denominator)

operatorDiv_Frac(bld, this, other) ==
    IF other.numerator = 0 \/ this.denominator = 0
    THEN Throw(ZERO_DIVISOR_ERROR)
    ELSE IF \/ willMultiplicationOverflow(bld, this.numerator, other.denominator)
            \/ willMultiplicationOverflow(bld, this.denominator, other.numerator)
    THEN Throw(OVERFLOW_ERROR)
    ELSE ReturnFrac(bld, Wrap(this.numerator * other.denominator),
                    this.denominator, other.numerator)

operatorDiv_int(bld, this, value) ==
    IF this.numerator = 0
    THEN Throw(ZERO_DIVISOR_ERROR)
    ELSE IF willMultiplicationOverflow(bld, this.denominator, value)
    THEN Throw(OVERFLOW_ERROR)
    ELSE FracND(Wrap(this.denominator * value), this.numerator)

(***************************************************************************)
(* Reversed order (value op frac), lines 220-276                           *)
(***************************************************************************)
intPlusFrac(bld, value, frac) ==
    IF willMultiplicationOverflow(bld, value, frac.denominator)
    THEN Throw(OVERFLOW_ERROR)
    ELSE IF willAdditionOverflow(frac.numerator, Wrap(value * frac.denominator))
    THEN Throw(OVERFLOW_ERROR)
    ELSE FracND(Wrap(frac.numerator + Wrap(value * frac.denominator)), frac.denominator)

intMinusFrac(bld, value, frac) ==
    FracND(Wrap(frac.numerator - Wrap(frac.denominator * value)), frac.denominator)

intTimesFrac(bld, value, frac) ==
    FracND(Wrap(frac.numerator * value), frac.denominator)

intDivFrac(bld, value, frac) ==
    IF frac.numerator = 0
    THEN Throw(ZERO_DIVISOR_ERROR)
    ELSE IF willMultiplicationOverflow(bld, value, frac.denominator)
    THEN Throw(OVERFLOW_ERROR)
    ELSE FracND(Wrap(value * frac.denominator), frac.numerator)

(***************************************************************************)
(* Compound operators, lines 282-392: the outcome holds the receiver       *)
(***************************************************************************)
operatorPlusAssign_Frac(bld, this, other) ==
    IF \/ willMultiplicationOverflow(bld, this.numerator, other.denominator)
       \/ willMultiplicationOverflow(bld, other.numerator, this.denominator)
       \/ willMultiplicationOverflow(bld, this.denominator, other.denominator)
       \/ willAdditionOverflow(Wrap(this.numerator * other.denominator),
                               Wrap(other.numerator * this.denominator))
    THEN ThrowAt(OVERFLOW_ERROR, this)
    ELSE LET newNumerator == Wrap(Wrap(this.numerator * other.denominator)
                                  + Wrap(other.numerator * this.denominator))
             newDenominator == Wrap(this.denominator * other.denominator)
         IN  Ok([this EXCEPT !.numerator = newNumerator, !.denominator = newDenominator])

operatorPlusAssign_int(bld, this, value) ==
    IF willMultiplicationOverflow(bld, this.denominator, value)
    THEN ThrowAt(OVERFLOW_ERROR, this)
    ELSE IF willAdditionOverflow(this.numerator, Wrap(this.denominator * value))
    THEN ThrowAt(OVERFLOW_ERROR, this)
    ELSE Ok([this EXCEPT !.numerator = Wrap(@ + Wrap(this.denominator * value))])

operatorMinusAssign_Frac(bld, this, other) ==
    IF \/ willMultiplicationOverflow(bld, this.numerator, other.denominator)
       \/ willMultiplicationOverflow(bld, this.denominator, other.numerator)
       \/ willMultiplicationOverflow(bld, this.denominator, other.denominator)
    THEN ThrowAt(OVERFLOW_ERROR, this)
    ELSE IF willSubtractionOverflow(Wrap(this.numerator * other.denominator),
                                    Wrap(this.denominator * other.numerator))
    THEN ThrowAt(OVERFLOW_ERROR, this)
    ELSE Ok([this EXCEPT
               !.numerator = Wrap(Wrap(this.numerator * other.denominator)
                                  - Wrap(this.denominator * other.numerator)),
               !.denominator = Wrap(@ * other.denominator)])

operatorMinusAssign_int(bld, this, value) ==
    IF willMultiplicationOverflow(bld, this.denominator, value)
    THEN ThrowAt(OVERFLOW_ERROR, this)
    ELSE IF willSubtractionOverflow(this.numerator, Wrap(this.denominator * value))
    THEN ThrowAt(OVERFLOW_ERROR, this)
    ELSE Ok([this EXCEPT !.numerator = Wrap(@ - Wrap(this.denominator * value))])

\* operator*= as it would be with each product stored as soon as its own
\* check has passed: the numerator is committed before the denominator is checked
operatorTimesAssign_Frac_storeEarly(bld, this, other) ==
    IF willMultiplicationOverflow(bld, this.numerator, other.numerator)
    THEN ThrowAt(OVERFLOW_ERROR, this)
    ELSE IF willMultiplicationOverflow(bld, this.denominator, other.denominator)
    THEN ThrowAt(OVERFLOW_ERROR, [this EXCEPT !.numerator = Wrap(@ * other.numerator)])
    ELSE Ok([this EXCEPT !.numerator = Wrap(@ * other.numerator),
                         !.denominator = Wrap(@ * other.denominator)])

operatorTimesAssign_Frac(bld, this, other) ==
    IF \/ willMultiplicationOverflow(bld, this.numerator, other.numerator)
       \/ willMultiplicationOverflow(bld, this.denominator, other.denominator)
    THEN ThrowAt(OVERFLOW_ERROR, this)
    ELSE Ok([this EXCEPT !.numerator = Wrap(@ * other.numerator),
                         !.denominator = Wrap(@ * other.denominator)])

operatorTimesAssign_int(bld, this, value) ==
    IF willMultiplicationOverflow(bld, this.numerator, value)
    THEN ThrowAt(OVERFLOW_ERROR, this)
    ELSE Ok([this EXCEPT !.numerator = Wrap(@ * value)])

operatorDivAssign_Frac(bld, this, other) ==
    IF other.numerator = 0 \/ this.denominator = 0
    THEN ThrowAt(ZERO_DIVISOR_ERROR, this)
    ELSE IF \/ willMultiplicationOverflow(bld, this.numerator, other.denominator)
            \/ willMultiplicationOverflow(bld, this.denominator, other.numerator)
    THEN ThrowAt(OVERFLOW_ERROR, this)
    ELSE Ok([this EXCEPT !.numerator = Wrap(@ * other.denominator),
                         !.denominator = Wrap(@ * other.numerator)])

\* numerator is assigned first, and denominator then copies the new numerator
operatorDivAssign_int(bld, this, value) ==
    IF this.numerator = 0
    THEN ThrowAt(ZERO_DIVISOR_ERROR, this)
    ELSE IF willMultiplicationOverflow(bld, value, this.denominator)
    THEN ThrowAt(OVERFLOW_ERROR, this)
    ELSE LET newNumerator == Wrap(this.denominator * value)
         IN  Ok([this EXCEPT !.numerator = newNumerator, !.denominator = newNumerator])

\* Frac& operator=(const Frac& other): whole is not copied
operatorAssign_Frac(this, other) ==
    [this EXCEPT !.numerator = other.numerator, !.denominator = other.denominator]

\* (*this) = *(this) op Frac(value), for a float or const char* value:
\* operand is the outcome of Frac(value), result that of *(this) op operand.f
compoundByValue(this, operand, result) ==
    IF operand.err # "none" THEN ThrowAt(operand.err, this)
    ELSE IF result.err # "none" THEN ThrowAt(result.err, this)
    ELSE Ok(operatorAssign_Frac(this, result.f))

(***************************************************************************)
(* Increment and decrement, lines 397-476                                  *)
(***************************************************************************)
\* whole = numerator / denominator; numerator %= denominator; and the sign
\* of the denominator, lines 410-417, on the receiver f holding numerator n
backToMixed(hw, f, n) ==
    IF hw = "x86" /\ DivUndefined(n, f.denominator)
    THEN ThrowAt(SIGFPE, [f EXCEPT !.numerator = n])
    ELSE LET w == HwDiv(n, f.denominator)
             m == HwMod(n, f.denominator)
         IN  IF f.denominator < 0
             THEN Ok(MkFrac(w, Wrap(-m), Wrap(-f.denominator)))
             ELSE Ok(MkFrac(w, m, f.denominator))

incrementLogic(hw, f) ==
    IF f.whole # 0
    THEN LET n == Wrap(f.numerator + Wrap(f.whole * f.denominator))
         IN  IF willAdditionOverflow(n, 1)
             THEN ThrowAt(OVERFLOW_ERROR, [f EXCEPT !.numerator = n])
             ELSE backToMixed(hw, f, n + 1)
    ELSE IF willAdditionOverflow(f.numerator, 1)
         THEN ThrowAt(OVERFLOW_ERROR, f)
         ELSE Ok([f EXCEPT !.numerator = @ + 1])

decrementLogic(hw, f) ==
    IF f.whole # 0
    THEN LET n == Wrap(f.numerator + Wrap(f.whole * f.denominator))
         IN  IF willAdditionOverflow(n, -1)
             THEN ThrowAt(OVERFLOW_ERROR, [f EXCEPT !.numerator = n])
             ELSE backToMixed(hw, f, n - 1)
    ELSE IF willAdditionOverflow(f.numerator, 1)
         THEN ThrowAt(OVERFLOW_ERROR, f)
         ELSE Ok([f EXCEPT !.numerator = Wrap(@ - 1)])

(***************************************************************************)
(* Unary minus and comparison, lines 482-611                               *)
(***************************************************************************)
operatorNeg(this) ==
    IF this.whole # 0
    THEN FracWND(Wrap(-this.whole), this.numerator, this.denominator)
    ELSE FracND(Wrap(-this.numerator), this.denominator)

lhsCross(this, other) ==
    Wrap(Wrap(Wrap(this.whole * this.denominator) + this.numerator) * other.denominator)

rhsCross(this, other) ==
    Wrap(Wrap(Wrap(other.whole * other.denominator) + other.numerator) * this.denominator)

operatorEq(this, other) == lhsCross(this, other) = rhsCross(this, other)

operatorNe(this, other) == ~operatorEq(this, other)

operatorGe(this, other) == lhsCross(this, other) >= rhsCross(this, other)

operatorLe(this, other) == lhsCross(this, other) <= rhsCross(this, other)

operatorGt(this, other) == lhsCross(this, other) > rhsCross(this, other)

operatorLt(this, other) == lhsCross(this, other) < rhsCross(this, other)

toImproper_keepWhole(frac) ==
    MkFrac(frac.whole, Wrap(Wrap(frac.whole * frac.denominator) + frac.numerator),
           frac.denominator)

toImproper(frac) ==
    MkFrac(0, Wrap(Wrap(frac.whole * frac.denominator) + frac.numerator), frac.denominator)

(***************************************************************************)
(* parseFromStream, lines 809-907.  A text is a sequence of characters.    *)
(***************************************************************************)
Digits == {"0", "1", "2", "3", "4", "5", "6", "7", "8", "9"}

DigitVal(c) ==
    CASE c = "0" -> 0 [] c = "1" -> 1 [] c = "2" -> 2 [] c = "3" -> 3 [] c = "4" -> 4
      [] c = "5" -> 5 [] c = "6" -> 6 [] c = "7" -> 7 [] c = "8" -> 8 [] c = "9" -> 9

\* a double converted to int: undefined when out of range, where x86 yields
\* the "integer indefinite" INT_MIN and arm saturates
ToInt(hw, v) ==
    IF InRange(v) THEN v
    ELSE IF hw = "x86" \/ v < 0 THEN INT_MIN ELSE INT_MAX

\* std::isdigit(is.peek()) with the stream at position i
peekIsDigit(t, i) == i <= Len(t) /\ t[i] \in Digits

RECURSIVE consumeWhitespace(_, _)
consumeWhitespace(t, i) ==
    IF i <= Len(t) /\ (t[i] = " " \/ t[i] = "\t") THEN consumeWhitespace(t, i + 1) ELSE i

RECURSIVE parseNumberFrom(_, _, _, _)
parseNumberFrom(hw, t, i, temp) ==
    IF peekIsDigit(t, i)
    THEN parseNumberFrom(hw, t, i + 1, ToInt(hw, temp * 10 + DigitVal(t[i])))
    ELSE [val |-> temp, pos |-> i]

parseNumber(hw, t, i) == parseNumberFrom(hw, t, i, 0)

\* lines 880-906: the zero check, the assignments and the optional simplify
parseCommit(bld, hw, this, whole, num, denom, isSimplifying) ==
    IF denom = 0 THEN ThrowAt(ZERO_DIVISOR_ERROR, this)
    ELSE LET t1 == [this EXCEPT !.denominator = denom]
             t2 == [t1 EXCEPT !.numerator = Wrap(denom * whole)]
             t3 == IF whole # 0 THEN [t2 EXCEPT !.numerator = Wrap(@ + num)]
                   ELSE [t1 EXCEPT !.numerator = num]
         IN  IF whole # 0 /\ willMultiplicationOverflow(bld, denom, whole)
             THEN ThrowAt(OVERFLOW_ERROR, t1)
             ELSE IF whole # 0 /\ willAdditionOverflow(t2.numerator, num)
             THEN ThrowAt(OVERFLOW_ERROR, t2)
             ELSE IF isSimplifying THEN simplify(hw, t3)
             ELSE Ok(t3)

\* lines 852-870: the text after "W ", the mixed form
parseMixed(bld, hw, this, t, i, whole, isSimplifying) ==
    LET i1 == consumeWhitespace(t, i)
        n == parseNumber(hw, t, i1)
        i2 == consumeWhitespace(t, n.pos + 1)
        d == parseNumber(hw, t, i2)
    IN  IF ~peekIsDigit(t, i1) THEN ThrowAt(INVALID_STRING_PARAMETER_ERROR, this)
        ELSE IF n.pos > Len(t) \/ t[n.pos] # "/"
        THEN ThrowAt(INVALID_STRING_PARAMETER_ERROR, this)
        ELSE IF ~peekIsDigit(t, i2) THEN ThrowAt(INVALID_STRING_PARAMETER_ERROR, this)
        ELSE parseCommit(bld, hw, this, whole, n.val, d.val, isSimplifying)

parseFromStream(bld, hw, this, t, isSimplifying) ==
    LET i0 == consumeWhitespace(t, 1)
        n == parseNumber(hw, t, i0)
        i1 == consumeWhitespace(t, n.pos + 1)
        d == parseNumber(hw, t, i1)
    IN  IF ~peekIsDigit(t, i0) THEN ThrowAt(INVALID_STRING_PARAMETER_ERROR, this)
        ELSE IF n.pos > Len(t)
        THEN Ok([this EXCEPT !.numerator = n.val, !.denominator = n.val])
        ELSE IF t[n.pos] = " "
        THEN parseMixed(bld, hw, this, t, n.pos + 1, n.val, isSimplifying)
        ELSE IF t[n.pos] = "/"
        THEN IF ~peekIsDigit(t, i1) THEN ThrowAt(INVALID_STRING_PARAMETER_ERROR, this)
             ELSE parseCommit(bld, hw, this, 0, n.val, d.val, isSimplifying)
        ELSE ThrowAt(INVALID_STRING_PARAMETER_ERROR, this)

\* Frac(const char* fracStr, bool isSimplifying): no object when it throws
FracText(bld, hw, t, isSimplifying) ==
    LET o == parseFromStream(bld, hw, MkFrac(0, 0, 0), t, isSimplifying)
    IN  IF o.err = "none" THEN o ELSE Throw(o.err)

(***************************************************************************)
(* toString, lines 766-769, with std::to_string(int)                       *)
(***************************************************************************)
DigitChar(k) == <<"0", "1", "2", "3", "4", "5", "6", "7", "8", "9">>[k + 1]

RECURSIVE NatToString(_)
NatToString(n) ==
    IF n < 10 THEN <<DigitChar(n)>>
    ELSE NatToString(n \div 10) \o <<DigitChar(n % 10)>>

to_string(n) == IF n < 0 THEN <<"-">> \o NatToString(-n) ELSE NatToString(n)

toString(frac) ==
    IF frac.whole # 0
    THEN to_string(frac.whole) \o <<" ">> \o to_string(frac.numerator) \o <<"/">>
            \o to_string(frac.denominator)
    ELSE to_string(frac.numerator) \o <<"/">> \o to_string(frac.denominator)

\* bool operator==(const char* other) const, lines 503-505: other is the
\* temporary Frac(text), whose constructor may have thrown
operatorEq_text(this, other) ==
    IF other.err # "none" THEN [err |-> other.err, b |-> FALSE]
    ELSE [err |-> "none", b |-> operatorEq(this, other.f)]

(***************************************************************************)
(* toFrac, lines 781-807.  A float is given by what std::to_string prints  *)
(* of its absolute value: micro millionths, and its sign neg.              *)
(***************************************************************************)
ToStringDigits == 6

Pow10[k \in 0..ToStringDigits] == IF k = 0 THEN 1 ELSE 10 * Pow10[k - 1]

MkDecimal(neg, micro) == [neg |-> neg, micro |-> micro]

RECURSIVE decimalPlacesFrom(_, _)
\* the digits left after the point once the trailing zeros are popped
decimalPlacesFrom(micro, places) ==
    IF places > 0 /\ micro % 10 = 0 THEN decimalPlacesFrom(micro \div 10, places - 1)
    ELSE places

toFrac(hw, this, decimal) ==
    LET decimalPlaces == decimalPlacesFrom(decimal.micro, ToStringDigits)
        den == ToInt(hw, Pow10[decimalPlaces])
        \* static_cast<int>(decimal * denominator + 0.5)
        num == ToInt(hw, TruncDiv(2 * decimal.micro * den + Pow10[ToStringDigits],
                                  2 * Pow10[ToStringDigits]))
        t1 == [this EXCEPT !.numerator = num, !.denominator = den]
    IN  IF den = 0 THEN ThrowAt(ZERO_DIVISOR_ERROR, t1)
        ELSE simplify(hw, t1)

\* Frac(float decimal)
FracDecimal(hw, decimal) ==
    LET o == toFrac(hw, MkFrac(0, 0, 0), decimal)
    IN  IF o.err = "none" THEN o ELSE Throw(o.err)

(***************************************************************************)
(* The values the operations are explored on                               *)
(***************************************************************************)
WholeInputs == {-1, 1, 2, INT_MAX}

NumInputs == {INT_MIN, -1, 0, 1, 2, 3, INT_MAX}

DenInputs == {INT_MIN, -1, 0, 1, 2, 4, INT_MAX}

IntOperands == {INT_MIN, -1, 0, 1, 3, INT_MAX}

FracOperands ==
    {MkFrac(w, n, d) : w \in {0, 1}, n \in {INT_MIN, -1, 0, 1, 2, INT_MAX},
                       d \in {-1, 2, INT_MAX}}

\* "1/2", "2", "0", "1 1/2", "1/0", "abc", "99 9/9", and then "1/2a", "1/",
\* "1 2", "1a", "999/2", "1 1/0"
TextOperands ==
    { <<"1", "/", "2">>, <<"2">>, <<"0">>, <<"1", " ", "1", "/", "2">>,
      <<"1", "/", "0">>, <<"a", "b", "c">>, <<"9", "9", " ", "9", "/", "9">>,
      <<"1", "/", "2", "a">>, <<"1", "/">>, <<"1", " ", "2">>, <<"1", "a">>,
      <<"9", "9", "9", "/", "2">>, <<"1", " ", "1", "/", "0">> }

\* 0.5, 0.75, 1.5, 0.0 and 1.27, each of either sign
DecimalOperands ==
    {MkDecimal(neg, m) : neg \in BOOLEAN, m \in {500000, 750000, 1500000, 0, 1270000}}

NoRhs ==
    [kind |-> "none", i |-> 0, f |-> Nothing, t |-> <<>>, d |-> MkDecimal(FALSE, 0),
     s |-> FALSE]

IntRhs(n) == [NoRhs EXCEPT !.kind = "int", !.i = n]

FracRhs(f) == [NoRhs EXCEPT !.kind = "Frac", !.f = f]

TextRhs(t) == [NoRhs EXCEPT !.kind = "text", !.t = t]

DecimalRhs(d) == [NoRhs EXCEPT !.kind = "decimal", !.d = d]

Constructors == {"Frac()", "Frac(n)", "Frac(n,d)", "Frac(w,n,d)"}

\* the process has ended abnormally or hangs
Dead == err \in {SIGFPE, HANG}

\* the object has just been constructed and the program goes on to use it
Fresh == op \in Constructors /\ err = "none"

\* a direct call of one of the three utilities: its arguments and what it
\* returned
MkCall(fn, a, b, ret) == [fn |-> fn, a |-> a, b |-> b, ret |-> ret]

NoCall == MkCall("none", 0, 0, FALSE)

(***************************************************************************)
(* The state machine                                                       *)
(***************************************************************************)
Init ==
    /\ build \in Builds
    /\ x = FracDefault
    /\ pre = FracDefault
    /\ op = "Frac()"
    /\ rhs = NoRhs
    /\ res = Nothing
    /\ err = "none"
    /\ flag = FALSE
    /\ out = <<>>
    /\ call = NoCall

\* one operation: flag is the bool and out the text it returns, if any
StepAll(name, r, newx, ret, e, b, t) ==
    /\ op' = name
    /\ rhs' = r
    /\ pre' = x
    /\ x' = newx
    /\ res' = ret
    /\ err' = e
    /\ flag' = b
    /\ out' = t
    /\ UNCHANGED <<build, call>>

Step(name, r, newx, ret, e) == StepAll(name, r, newx, ret, e, FALSE, <<>>)

\* a constructor: x becomes the new object, or stays when it throws
Constructs(name, r, o) ==
    Step(name, r, IF o.err = "none" THEN o.f ELSE x, Nothing, o.err)

\* an operator that returns a new Frac and leaves the receiver alone
Returns(name, r, o) == Step(name, r, x, o.f, o.err)

\* a void member that works on the receiver
Mutates(name, r, o) == Step(name, r, IF o.err \in {SIGFPE, HANG} THEN x ELSE o.f, Nothing, o.err)

ConstructInt ==
    /\ op = "Frac()"
    /\ \E n \in NumInputs : Constructs("Frac(n)", IntRhs(n), FracInt(n))

ConstructND ==
    /\ op = "Frac()"
    /\ \E n \in NumInputs, d \in DenInputs, s \in BOOLEAN, hw \in Hardware :
          Constructs("Frac(n,d)", [FracRhs(MkFrac(0, n, d)) EXCEPT !.s = s],
                     FracSimplifying(hw, FracND(n, d), s))

ConstructWND ==
    /\ op = "Frac()"
    /\ \E w \in WholeInputs, n \in NumInputs, d \in DenInputs, s \in BOOLEAN,
           hw \in Hardware :
          Constructs("Frac(w,n,d)", [FracRhs(MkFrac(w, n, d)) EXCEPT !.s = s],
                     FracSimplifying(hw, FracWND(w, n, d), s))

ConstructText ==
    /\ op = "Frac()"
    /\ \E t \in TextOperands, s \in BOOLEAN, hw \in Hardware :
          \E o \in {FracText(build, hw, t, s)} :
             Constructs("Frac(text)", [TextRhs(t) EXCEPT !.s = s], o)

ConstructDecimal ==
    /\ op = "Frac()"
    /\ \E d \in DecimalOperands, hw \in Hardware :
          \E o \in {FracDecimal(hw, d)} :
             Constructs("Frac(decimal)", DecimalRhs(d), o)

\* ---- this op other, a new Frac returned
Plus_Frac ==
    /\ Fresh
    /\ \E b \in FracOperands, cg \in Codegen(build) :
          Returns("x+f", FracRhs(b), operatorPlus_Frac(cg, x, b))

Minus_Frac ==
    /\ Fresh
    /\ \E b \in FracOperands, cg \in Codegen(build) :
          Returns("x-f", FracRhs(b), operatorMinus_Frac(cg, x, b))

Times_Frac ==
    /\ Fresh
    /\ \E b \in FracOperands, cg \in Codegen(build) :
          Returns("x*f", FracRhs(b), operatorTimes_Frac(cg, x, b))

Div_Frac ==
    /\ Fresh
    /\ \E b \in FracOperands, cg \in Codegen(build) :
          Returns("x/f", FracRhs(b), operatorDiv_Frac(cg, x, b))

Plus_int ==
    /\ Fresh
    /\ \E n \in IntOperands : Returns("x+n", IntRhs(n), operatorPlus_int(build, x, n))

Minus_int ==
    /\ Fresh
    /\ \E n \in IntOperands : Returns("x-n", IntRhs(n), operatorMinus_int(build, x, n))

Times_int ==
    /\ Fresh
    /\ \E n \in IntOperands : Returns("x*n", IntRhs(n), operatorTimes_int(build, x, n))

Div_int ==
    /\ Fresh
    /\ \E n \in IntOperands : Returns("x/n", IntRhs(n), operatorDiv_int(build, x, n))

\* ---- value op frac, with x the Frac operand
Int_Plus ==
    /\ Fresh
    /\ \E n \in IntOperands : Returns("n+x", IntRhs(n), intPlusFrac(build, n, x))

Int_Minus ==
    /\ Fresh
    /\ \E n \in IntOperands : Returns("n-x", IntRhs(n), intMinusFrac(build, n, x))

Int_Times ==
    /\ Fresh
    /\ \E n \in IntOperands : Returns("n*x", IntRhs(n), intTimesFrac(build, n, x))

Int_Div ==
    /\ Fresh
    /\ \E n \in IntOperands : Returns("n/x", IntRhs(n), intDivFrac(build, n, x))

\* ---- compound assignment
PlusAssign_Frac ==
    /\ Fresh
    /\ \E b \in FracOperands :
          Mutates("x+=f", FracRhs(b), operatorPlusAssign_Frac(build, x, b))

MinusAssign_Frac ==
    /\ Fresh
    /\ \E b \in FracOperands :
          Mutates("x-=f", FracRhs(b), operatorMinusAssign_Frac(build, x, b))

TimesAssign_Frac ==
    /\ Fresh
    /\ \E b \in FracOperands :
          Mutates("x*=f", FracRhs(b), operatorTimesAssign_Frac(build, x, b))

DivAssign_Frac ==
    /\ Fresh
    /\ \E b \in FracOperands :
          Mutates("x/=f", FracRhs(b), operatorDivAssign_Frac(build, x, b))

PlusAssign_int ==
    /\ Fresh
    /\ \E n \in IntOperands :
          Mutates("x+=n", IntRhs(n), operatorPlusAssign_int(build, x, n))

MinusAssign_int ==
    /\ Fresh
    /\ \E n \in IntOperands :
          Mutates("x-=n", IntRhs(n), operatorMinusAssign_int(build, x, n))

TimesAssign_int ==
    /\ Fresh
    /\ \E n \in IntOperands :
          Mutates("x*=n", IntRhs(n), operatorTimesAssign_int(build, x, n))

DivAssign_int ==
    /\ Fresh
    /\ \E n \in IntOperands :
          Mutates("x/=n", IntRhs(n), operatorDivAssign_int(build, x, n))

PlusAssign_text ==
    /\ Fresh
    /\ \E t \in TextOperands, hw \in Hardware, cg \in Codegen(build) :
          \E o \in {FracText(build, hw, t, FALSE)} :
             Mutates("x+=text", TextRhs(t),
                     compoundByValue(x, o, operatorPlus_Frac(cg, x, o.f)))

MinusAssign_text ==
    /\ Fresh
    /\ \E t \in TextOperands, hw \in Hardware, cg \in Codegen(build) :
          \E o \in {FracText(build, hw, t, FALSE)} :
             Mutates("x-=text", TextRhs(t),
                     compoundByValue(x, o, operatorMinus_Frac(cg, x, o.f)))

TimesAssign_text ==
    /\ Fresh
    /\ \E t \in TextOperands, hw \in Hardware, cg \in Codegen(build) :
          \E o \in {FracText(build, hw, t, FALSE)} :
             Mutates("x*=text", TextRhs(t),
                     compoundByValue(x, o, operatorTimes_Frac(cg, x, o.f)))

DivAssign_text ==
    /\ Fresh
    /\ \E t \in TextOperands, hw \in Hardware, cg \in Codegen(build) :
          \E o \in {FracText(build, hw, t, FALSE)} :
             Mutates("x/=text", TextRhs(t),
                     compoundByValue(x, o, operatorDiv_Frac(cg, x, o.f)))

PlusAssign_decimal ==
    /\ Fresh
    /\ \E d \in DecimalOperands, hw \in Hardware, cg \in Codegen(build) :
          \E o \in {FracDecimal(hw, d)} :
             Mutates("x+=decimal", DecimalRhs(d),
                     compoundByValue(x, o, operatorPlus_Frac(cg, x, o.f)))

MinusAssign_decimal ==
    /\ Fresh
    /\ \E d \in DecimalOperands, hw \in Hardware, cg \in Codegen(build) :
          \E o \in {FracDecimal(hw, d)} :
             Mutates("x-=decimal", DecimalRhs(d),
                     compoundByValue(x, o, operatorMinus_Frac(cg, x, o.f)))

TimesAssign_decimal ==
    /\ Fresh
    /\ \E d \in DecimalOperands, hw \in Hardware, cg \in Codegen(build) :
          \E o \in {FracDecimal(hw, d)} :
             Mutates("x*=decimal", DecimalRhs(d),
                     compoundByValue(x, o, operatorTimes_Frac(cg, x, o.f)))

DivAssign_decimal ==
    /\ Fresh
    /\ \E d \in DecimalOperands, hw \in Hardware, cg \in Codegen(build) :
          \E o \in {FracDecimal(hw, d)} :
             Mutates("x/=decimal", DecimalRhs(d),
                     compoundByValue(x, o, operatorDiv_Frac(cg, x, o.f)))

\* ---- increment and decrement: the prefix forms return *this, the postfix
\* forms the copy taken before
PreIncrement ==
    /\ Fresh
    /\ \E hw \in Hardware :
          LET o == incrementLogic(hw, x)
          IN  Step("++x", NoRhs, IF o.err \in {SIGFPE, HANG} THEN x ELSE o.f,
                   IF o.err = "none" THEN o.f ELSE Nothing, o.err)

PostIncrement ==
    /\ Fresh
    /\ \E hw \in Hardware :
          LET o == incrementLogic(hw, x)
          IN  Step("x++", NoRhs, IF o.err \in {SIGFPE, HANG} THEN x ELSE o.f,
                   IF o.err = "none" THEN x ELSE Nothing, o.err)

PreDecrement ==
    /\ Fresh
    /\ \E hw \in Hardware :
          LET o == decrementLogic(hw, x)
          IN  Step("--x", NoRhs, IF o.err \in {SIGFPE, HANG} THEN x ELSE o.f,
                   IF o.err = "none" THEN o.f ELSE Nothing, o.err)

PostDecrement ==
    /\ Fresh
    /\ \E hw \in Hardware :
          LET o == decrementLogic(hw, x)
          IN  Step("x--", NoRhs, IF o.err \in {SIGFPE, HANG} THEN x ELSE o.f,
                   IF o.err = "none" THEN x ELSE Nothing, o.err)

\* ---- unary minus: a new Frac returned
Negate ==
    /\ Fresh
    /\ Returns("-x", NoRhs, operatorNeg(x))

\* ---- comparison: a bool returned, the receiver left alone
Compares(name, r, b) == StepAll(name, r, x, Nothing, "none", b, <<>>)

Eq_Frac ==
    /\ Fresh
    /\ \E b \in FracOperands : Compares("x==f", FracRhs(b), operatorEq(x, b))

Ne_Frac ==
    /\ Fresh
    /\ \E b \in FracOperands : Compares("x!=f", FracRhs(b), operatorNe(x, b))

Ge_Frac ==
    /\ Fresh
    /\ \E b \in FracOperands : Compares("x>=f", FracRhs(b), operatorGe(x, b))

Le_Frac ==
    /\ Fresh
    /\ \E b \in FracOperands : Compares("x<=f", FracRhs(b), operatorLe(x, b))

Gt_Frac ==
    /\ Fresh
    /\ \E b \in FracOperands : Compares("x>f", FracRhs(b), operatorGt(x, b))

Lt_Frac ==
    /\ Fresh
    /\ \E b \in FracOperands : Compares("x<f", FracRhs(b), operatorLt(x, b))

\* Frac y = x; Frac::SimplifyFrac(x); x == y  -- the comparison, with the
\* copy taken before the simplification as the right operand
Eq_Copy ==
    /\ op = "SimplifyFrac"
    /\ err = "none"
    /\ Compares("x==copy", FracRhs(pre), operatorEq(x, pre))

\* ---- Frac::toString(x) of a simplified object, and then the comparison
\* of the object with the text: x == text
CallToString ==
    /\ op = "SimplifyFrac"
    /\ err = "none"
    /\ StepAll("toString", NoRhs, x, Nothing, "none", FALSE, toString(x))

Eq_Formatted ==
    /\ op = "toString"
    /\ \E hw \in Hardware :
          \E o \in {FracText(build, hw, out, FALSE)} :
             \E c \in {operatorEq_text(x, o)} :
                StepAll("x==format", TextRhs(out), x, Nothing, c.err, c.b, <<>>)

\* ---- Frac::toImproper(x): a new Frac returned
ToImproper ==
    /\ Fresh
    /\ Returns("toImproper(x)", NoRhs, Ok(toImproper(x)))

\* ---- assignment
Assign_Frac ==
    /\ Fresh
    /\ \E b \in FracOperands :
          Step("x=f", FracRhs(b), operatorAssign_Frac(x, b), Nothing, "none")

Assign_text ==
    /\ Fresh
    /\ \E t \in TextOperands, hw \in Hardware :
          Mutates("x=text", TextRhs(t), parseFromStream(build, hw, x, t, FALSE))

Assign_decimal ==
    /\ Fresh
    /\ \E d \in DecimalOperands, hw \in Hardware :
          Mutates("x=decimal", DecimalRhs(d), toFrac(hw, x, d))

\* ---- Frac::SimplifyFrac(x), on a new object or on the result of a
\* compound assignment, an assignment or a simplification
CompoundOps ==
    {"x+=f", "x-=f", "x*=f", "x/=f", "x+=n", "x-=n", "x*=n", "x/=n",
     "x+=text", "x-=text", "x*=text", "x/=text",
     "x+=decimal", "x-=decimal", "x*=decimal", "x/=decimal"}

SimplifyFrac ==
    /\ err = "none"
    /\ op \in Constructors \cup CompoundOps \cup {"x=f", "x=text", "x=decimal", "SimplifyFrac"}
    /\ \E hw \in Hardware : Mutates("SimplifyFrac", NoRhs, simplify(hw, x))

Next ==
    \/ ConstructInt
    \/ ConstructND
    \/ ConstructWND
    \/ ConstructText
    \/ ConstructDecimal
    \/ Plus_Frac
    \/ Minus_Frac
    \/ Times_Frac
    \/ Div_Frac
    \/ Plus_int
    \/ Minus_int
    \/ Times_int
    \/ Div_int
    \/ Int_Plus
    \/ Int_Minus
    \/ Int_Times
    \/ Int_Div
    \/ PlusAssign_Frac
    \/ MinusAssign_Frac
    \/ TimesAssign_Frac
    \/ DivAssign_Frac
    \/ PlusAssign_int
    \/ MinusAssign_int
    \/ TimesAssign_int
    \/ DivAssign_int
    \/ PlusAssign_text
    \/ MinusAssign_text
    \/ TimesAssign_text
    \/ DivAssign_text
    \/ PlusAssign_decimal
    \/ MinusAssign_decimal
    \/ TimesAssign_decimal
    \/ DivAssign_decimal
    \/ PreIncrement
    \/ PostIncrement
    \/ PreDecrement
    \/ PostDecrement
    \/ Assign_Frac
    \/ Assign_text
    \/ Assign_decimal
    \/ SimplifyFrac
    \/ Negate
    \/ Eq_Frac
    \/ Ne_Frac
    \/ Ge_Frac
    \/ Le_Frac
    \/ Gt_Frac
    \/ Lt_Frac
    \/ Eq_Copy
    \/ CallToString
    \/ Eq_Formatted
    \/ ToImproper

Spec == Init /\ [][Next]_vars

(***************************************************************************)
(* The utilities called on their own, on every pair of ints                *)
(***************************************************************************)
Calls(fn, a, b, ret) ==
    /\ call' = MkCall(fn, a, b, ret)
    /\ UNCHANGED <<build, x, pre, op, rhs, res, err, flag, out>>

CallWillMultiplicationOverflow ==
    /\ call = NoCall
    /\ \E a \in Int32, b \in Int32, cg \in Codegen(build) :
          Calls("willMultiplicationOverflow", a, b, willMultiplicationOverflow(cg, a, b))

CallWillAdditionOverflow ==
    /\ call = NoCall
    /\ \E a \in Int32, b \in Int32 :
          Calls("willAdditionOverflow", a, b, willAdditionOverflow(a, b))

CallWillSubtractionOverflow ==
    /\ call = NoCall
    /\ \E a \in Int32, b \in Int32 :
          Calls("willSubtractionOverflow", a, b, willSubtractionOverflow(a, b))

UtilNext ==
    \/ CallWillMultiplicationOverflow
    \/ CallWillAdditionOverflow
    \/ CallWillSubtractionOverflow

UtilSpec == Init /\ [][UtilNext]_vars

(***************************************************************************)
(* Properties                                                              *)
(***************************************************************************)
\* the improper numerator of the full value of f: whole * denominator + numerator
FullNumerator(f) == f.whole * f.denominator + f.numerator

\* the Frac an operation has produced: stored in x by a compound assignment,
\* returned otherwise
Produced == IF op \in CompoundOps THEN x ELSE res

StepOps == {"++x", "x++", "--x", "x--"}

ArithmeticOps ==
    {"x+f", "x-f", "x*f", "x/f", "x+n", "x-n", "x*n", "x/n",
     "n+x", "n-x", "n*x", "n/x",
     "x+=f", "x-=f", "x*=f", "x/=f", "x+=n", "x-=n", "x*=n", "x/=n"}

\* <<numerator, denominator>> of the formula of operation o on the receiver a
\* and the operand r, computed in unbounded integers
ExactFormula(o, a, r) ==
    LET b == r.f
        n == r.i
    IN  CASE o \in {"x+f", "x+=f"} ->
               <<a.numerator * b.denominator + b.numerator * a.denominator,
                 a.denominator * b.denominator>>
          [] o \in {"x-f", "x-=f"} ->
               <<a.numerator * b.denominator - a.denominator * b.numerator,
                 a.denominator * b.denominator>>
          [] o \in {"x*f", "x*=f"} ->
               <<a.numerator * b.numerator, a.denominator * b.denominator>>
          [] o \in {"x/f", "x/=f"} ->
               <<a.numerator * b.denominator, a.denominator * b.numerator>>
          [] o \in {"x+n", "x+=n", "n+x"} ->
               <<a.numerator + a.denominator * n, a.denominator>>
          [] o \in {"x-n", "x-=n", "n-x"} ->
               <<a.numerator - a.denominator * n, a.denominator>>
          [] o \in {"x*n", "x*=n", "n*x"} -> <<a.numerator * n, a.denominator>>
          [] o \in {"x/n", "n/x"} -> <<a.denominator * n, a.numerator>>
          [] o = "x/=n" -> <<a.denominator * n, a.denominator * n>>

\* C1: after any sequence of public operations, those that end in an error
\* included, the denominator of the value is never 0.
C1_DenominatorNeverZero == x.denominator # 0

\* C2: every form of +, -, *, / on a Frac with a Frac or an int operand
\* (member, compound and reversed) either raises Overflow (or ZeroDivisor,
\* for a division) or produces the numerator and the denominator of its
\* formula in unbounded integers, never a wrapped product, sum or difference.
C2_OverflowOrExact ==
    op \in ArithmeticOps =>
        \/ err = OVERFLOW_ERROR
        \/ err = ZERO_DIVISOR_ERROR /\ op \in {"x/f", "x/n", "n/x", "x/=f", "x/=n"}
        \/ /\ err = "none"
           /\ <<Produced.numerator, Produced.denominator>> = ExactFormula(op, pre, rhs)

\* C3: a + b raises Overflow exactly when aNum*bDen, bNum*aDen, aDen*bDen or
\* the sum of the first two is outside the int range, and otherwise returns,
\* unsimplified, the numerator aNum*bDen + bNum*aDen over aDen*bDen.
C3_PlusOverflowsExactly ==
    op = "x+f" =>
        LET a == pre
            b == rhs.f
            p1 == a.numerator * b.denominator
            p2 == b.numerator * a.denominator
            p3 == a.denominator * b.denominator
        IN  IF ~InRange(p1) \/ ~InRange(p2) \/ ~InRange(p3) \/ ~InRange(p1 + p2)
            THEN err = OVERFLOW_ERROR
            ELSE err = "none" /\ res = MkFrac(0, p1 + p2, p3)

\* C4: a compound assignment (+=, -=, *=, /= with a Frac, int, decimal or
\* text operand) that fails with Overflow, ZeroDivisor or InvalidFormat
\* leaves whole, numerator and denominator of its left operand as they were.
C4_FailedCompoundKeepsOperand ==
    (/\ op \in CompoundOps
     /\ err \in {OVERFLOW_ERROR, ZERO_DIVISOR_ERROR, INVALID_STRING_PARAMETER_ERROR})
        => x = pre

\* C4 happens: a *= b has raised Overflow on the product of the denominators,
\* the product of the numerators being in range and different from a's numerator
C4_Witness ==
    /\ op = "x*=f"
    /\ err = OVERFLOW_ERROR
    /\ InRange(pre.numerator * rhs.f.numerator)
    /\ pre.numerator * rhs.f.numerator # pre.numerator
    /\ x = pre

\* C5: a ++ or -- (prefix or postfix) that fails with Overflow leaves whole,
\* numerator and denominator of its operand as they were, for whole = 0 and
\* for whole # 0.
C5_FailedStepKeepsOperand ==
    (op \in StepOps /\ err = OVERFLOW_ERROR) => x = pre

\* C6: for operands with non-zero whole parts, a + b, a - b, a * b and a / b
\* return a result whose value is the exact result on the full values
\* (whole * denominator + numerator) / denominator of the operands.
C6_WholeAwareArithmetic ==
    (/\ op \in {"x+f", "x-f", "x*f", "x/f"}
     /\ err = "none"
     /\ pre.whole # 0 /\ rhs.f.whole # 0
     /\ InRange(FullNumerator(pre)) /\ InRange(FullNumerator(rhs.f)))
        => LET A == FullNumerator(pre)
               B == FullNumerator(rhs.f)
               aD == pre.denominator
               bD == rhs.f.denominator
               exact == CASE op = "x+f" -> <<A * bD + B * aD, aD * bD>>
                          [] op = "x-f" -> <<A * bD - B * aD, aD * bD>>
                          [] op = "x*f" -> <<A * B, aD * bD>>
                          [] op = "x/f" -> <<A * bD, aD * B>>
           IN  /\ res.denominator # 0
               /\ FullNumerator(res) * exact[2] = exact[1] * res.denominator

\* the value of the divisor of a division is zero
DivisorIsZero ==
    CASE op \in {"x/f", "x/=f"} -> FullNumerator(rhs.f) = 0
      [] op \in {"x/n", "x/=n"} -> rhs.i = 0
      [] op = "n/x" -> FullNumerator(pre) = 0

\* C7: a division (Frac / Frac, Frac / int, int / Frac and the /= forms)
\* raises ZeroDivisor exactly when the value of its divisor is zero.
C7_ZeroDivisorExactly ==
    op \in {"x/f", "x/n", "n/x", "x/=f", "x/=n"} =>
        (err = ZERO_DIVISOR_ERROR <=> DivisorIsZero)

\* C8: n + a has the outcome of a + n, and n * a the outcome of a * n: the
\* same whole, numerator and denominator, or Overflow from both.
C8_ReversedSameOutcome ==
    /\ op = "n+x" => [err |-> err, f |-> res] = operatorPlus_int(build, pre, rhs.i)
    /\ op = "n*x" => [err |-> err, f |-> res] = operatorTimes_int(build, pre, rhs.i)

\* C9: the reversed subtraction n - a yields the value n minus a.
C9_ReversedMinusValue ==
    (op = "n-x" /\ err = "none" /\ InRange(FullNumerator(pre)))
        => /\ res.denominator # 0
           /\ FullNumerator(res) * pre.denominator
                = (rhs.i * pre.denominator - FullNumerator(pre)) * res.denominator

\* the operation of the state with its operands swapped, as one build computes it
Swapped(cg) ==
    IF op = "x+f" THEN operatorPlus_Frac(cg, rhs.f, pre)
    ELSE operatorTimes_Frac(cg, rhs.f, pre)

\* C10: a + b and b + a either both raise Overflow or both return results
\* that compare equal under ==, and so do a * b and b * a.
C10_Commutes ==
    op \in {"x+f", "x*f"} =>
        \E cg \in Codegen(build) :
            \/ err = OVERFLOW_ERROR /\ Swapped(cg).err = OVERFLOW_ERROR
            \/ err = "none" /\ Swapped(cg).err = "none" /\ operatorEq(res, Swapped(cg).f)

\* C11: unary minus returns a new Frac with whole negated and numerator and
\* denominator unchanged when whole # 0, and with numerator negated (whole 0,
\* denominator unchanged) when whole = 0; the operand is not modified.
C11_NegationFields ==
    op = "-x" =>
        /\ err = "none"
        /\ x = pre
        /\ res = IF pre.whole # 0
                 THEN MkFrac(-pre.whole, pre.numerator, pre.denominator)
                 ELSE MkFrac(0, -pre.numerator, pre.denominator)

\* +1 for an increment, -1 for a decrement
StepDelta == IF op \in {"++x", "x++"} THEN 1 ELSE -1

\* C12: where no step overflows, ++ and -- on (w, n, d) with w # 0 and d > 0
\* leave whole = (w*d + n +- 1) div d, numerator = (w*d + n +- 1) rem d
\* (truncating) and denominator d; with w = 0 only the numerator changes, by
\* exactly +1 or -1.
C12_StepResult ==
    op \in StepOps =>
        LET w == pre.whole
            n == pre.numerator
            d == pre.denominator
            m == w * d + n + StepDelta
        IN  /\ (w # 0 /\ d > 0 /\ InRange(w * d) /\ InRange(w * d + n) /\ InRange(m))
                  => (err = "none" /\ x = MkFrac(TruncDiv(m, d), TruncMod(m, d), d))
            /\ (w = 0 /\ InRange(n + StepDelta))
                  => (err = "none" /\ x = MkFrac(0, n + StepDelta, d))

\* a and b, both >= 0, have no common divisor above 1
Coprime(a, b) ==
    \A k \in 2..(IF a > b THEN a ELSE b) : ~(a % k = 0 /\ b % k = 0)

\* C13: for every (n, d) with d # 0, constructing Frac(n, d) and simplifying
\* it completes normally and yields denominator > 0 and
\* gcd(|numerator|, |denominator|) = 1, or numerator = 0 and denominator = 1.
C13_SimplifyCompletesReduced ==
    (op = "Frac(n,d)" /\ rhs.s /\ rhs.f.denominator # 0) =>
        /\ err = "none"
        /\ \/ x.numerator = 0 /\ x.denominator = 1
           \/ x.denominator > 0 /\ Coprime(Abs(x.numerator), Abs(x.denominator))

\* C14: simplification is idempotent field-wise: simplifying the result of a
\* completed simplification again completes and changes no field.
C14_SimplifyIdempotent ==
    [][(op = "SimplifyFrac" /\ err = "none" /\ op' = "SimplifyFrac")
          => (err' = "none" /\ x' = x)]_vars

\* C15: a value compared with its own simplification by operator== is equal,
\* whatever its whole part and signs, as long as its denominator is not zero.
C15_SimplifiedEqualsOriginal ==
    (op = "x==copy" /\ rhs.f.denominator # 0) => flag

CompareOps == {"x==f", "x!=f", "x>=f", "x<=f", "x>f", "x<f"}

\* the sign of the rational a / b minus the rational c / d, for b and d not zero
RationalOrder(a, b, c, d) ==
    LET l == IF (b > 0) = (d > 0) THEN a * d ELSE -(a * d)
        r == IF (b > 0) = (d > 0) THEN c * b ELSE -(c * b)
    IN  IF l < r THEN -1 ELSE IF l = r THEN 0 ELSE 1

ExactRelation(name, sgn) ==
    CASE name = "x==f" -> sgn = 0
      [] name = "x!=f" -> sgn # 0
      [] name = "x>=f" -> sgn >= 0
      [] name = "x<=f" -> sgn <= 0
      [] name = "x>f"  -> sgn > 0
      [] name = "x<f"  -> sgn < 0

\* the improper numerators and the cross-products of a comparison fit an int
ComparisonFits(a, b) ==
    /\ InRange(a.whole * a.denominator)
    /\ InRange(FullNumerator(a))
    /\ InRange(b.whole * b.denominator)
    /\ InRange(FullNumerator(b))
    /\ InRange(FullNumerator(a) * b.denominator)
    /\ InRange(FullNumerator(b) * a.denominator)

\* C16: each of ==, !=, <, <=, >, >= returns the truth of the exact rational
\* relation between its operands, for denominators of either sign that are
\* not zero, when the improper numerators and the cross-products fit an int.
C16_ComparisonExact ==
    (/\ op \in CompareOps
     /\ pre.denominator # 0
     /\ rhs.f.denominator # 0
     /\ ComparisonFits(pre, rhs.f))
        => flag = ExactRelation(op, RationalOrder(FullNumerator(pre), pre.denominator,
                                                  FullNumerator(rhs.f), rhs.f.denominator))

ParseOps == {"Frac(text)", "x=text"}

AllDigits(t) == Len(t) > 0 /\ \A i \in 1..Len(t) : t[i] \in Digits

\* the text is "N/D" with the '/' at position i
IsND(t, i) ==
    /\ i \in 1..Len(t)
    /\ t[i] = "/"
    /\ AllDigits(SubSeq(t, 1, i - 1))
    /\ AllDigits(SubSeq(t, i + 1, Len(t)))

\* the text is "W N/D" with the ' ' at position i and the '/' at position j
IsWND(t, i, j) ==
    /\ i \in 1..Len(t)
    /\ j \in (i + 1)..Len(t)
    /\ t[i] = " "
    /\ t[j] = "/"
    /\ AllDigits(SubSeq(t, 1, i - 1))
    /\ AllDigits(SubSeq(t, i + 1, j - 1))
    /\ AllDigits(SubSeq(t, j + 1, Len(t)))

MatchesGrammar(t) ==
    \/ AllDigits(t)
    \/ \E i \in 1..Len(t) : IsND(t, i)
    \/ \E i \in 1..Len(t), j \in 1..Len(t) : IsWND(t, i, j)

\* C17: parsing a text that does not match the grammar integer |
\* integer '/' integer | integer ' ' integer '/' integer fails with the
\* format error and returns no value; characters left over after the
\* denominator digits are such a text.
C17_MalformedTextRejected ==
    (op \in ParseOps /\ ~MatchesGrammar(rhs.t)) => err = INVALID_STRING_PARAMETER_ERROR

\* the number a digit string writes, exactly
RECURSIVE DigitsValue(_)
DigitsValue(t) ==
    IF t = <<>> THEN 0
    ELSE 10 * DigitsValue(SubSeq(t, 1, Len(t) - 1)) + DigitVal(t[Len(t)])

\* the object holds exactly the rational n / d
HoldsRational(f, n, d) ==
    /\ f.denominator # 0
    /\ FullNumerator(f) * d = n * f.denominator

\* C18: without simplification, parsing "N/D" with D not zero yields numerator
\* N and denominator D, parsing "W N/D" with D not zero and D*W + N an int
\* yields the value (D*W + N) / D, and either form with D zero fails with the
\* zero-divisor error.
C18_ParsedValue ==
    (op \in ParseOps /\ ~rhs.s) =>
        /\ \A i \in 1..Len(rhs.t) :
              IsND(rhs.t, i) =>
                 LET N == DigitsValue(SubSeq(rhs.t, 1, i - 1))
                     D == DigitsValue(SubSeq(rhs.t, i + 1, Len(rhs.t)))
                 IN  IF D = 0 THEN err = ZERO_DIVISOR_ERROR
                     ELSE err = "none" /\ x.numerator = N /\ x.denominator = D
        /\ \A i \in 1..Len(rhs.t), j \in 1..Len(rhs.t) :
              IsWND(rhs.t, i, j) =>
                 LET W == DigitsValue(SubSeq(rhs.t, 1, i - 1))
                     N == DigitsValue(SubSeq(rhs.t, i + 1, j - 1))
                     D == DigitsValue(SubSeq(rhs.t, j + 1, Len(rhs.t)))
                 IN  IF D = 0 THEN err = ZERO_DIVISOR_ERROR
                     ELSE InRange(D * W + N) =>
                             (err = "none" /\ HoldsRational(x, D * W + N, D))

\* C19: without simplification, parsing a text that is a single integer N
\* yields numerator N and denominator 1.
C19_SingleInteger ==
    (op \in ParseOps /\ ~rhs.s /\ AllDigits(rhs.t) /\ InRange(DigitsValue(rhs.t))) =>
        /\ err = "none"
        /\ x.numerator = DigitsValue(rhs.t)
        /\ x.denominator = 1

\* C20: for a simplified value without a whole part, of either sign, parsing
\* the text that formatting it produces succeeds and the parsed value
\* compares equal to it.
C20_ParseFormatInverse ==
    (op = "x==format" /\ x.whole = 0) => (err = "none" /\ flag)

\* C21: assignment leaves the target field-wise equal to a fresh construction
\* from its source, whatever the target held before: after x = f the three
\* fields of x are those of f, and after x = text they are those of Frac(text).
C21_AssignmentFieldwise ==
    /\ op = "x=f" => x = rhs.f
    /\ (op = "x=text" /\ err = "none") =>
          \E hw \in Hardware :
             /\ FracText(build, hw, rhs.t, FALSE).err = "none"
             /\ x = FracText(build, hw, rhs.t, FALSE).f

\* the decimal as a signed count of millionths
SignedMicro(d) == IF d.neg THEN -d.micro ELSE d.micro

\* C22: the value constructed from a decimal with at most six fractional
\* digits is that decimal with its sign: Frac(0.75) is 3/4 and Frac(-0.75)
\* is the negation of Frac(0.75).
C22_DecimalKeepsSign ==
    (op = "Frac(decimal)" /\ err = "none") =>
        HoldsRational(x, SignedMicro(rhs.d), Pow10[ToStringDigits])

\* C23: when whole * denominator + numerator does not overflow, toImproper(x)
\* returns whole 0, numerator x.whole * x.denominator + x.numerator and
\* denominator x.denominator, a value that compares equal to x, and leaves x
\* as it was.
C23_ToImproper ==
    (/\ op = "toImproper(x)"
     /\ InRange(pre.whole * pre.denominator)
     /\ InRange(FullNumerator(pre)))
        => /\ err = "none"
           /\ res = MkFrac(0, FullNumerator(pre), pre.denominator)
           /\ operatorEq(res, pre)
           /\ x = pre

\* toImproper(Frac(1, 1, 2)) has returned 3/2
C23_Witness ==
    /\ op = "toImproper(x)"
    /\ pre = MkFrac(1, 1, 2)
    /\ res = MkFrac(0, 3, 2)

\* C24: for an integer n other than zero, when the product denominator * n
\* does not overflow, x / n returns numerator x.numerator and denominator
\* x.denominator * n, the value of x / Frac(n).
C24_DivideByInt ==
    (op = "x/n" /\ rhs.i # 0 /\ InRange(pre.denominator * rhs.i)) =>
        /\ err = "none"
        /\ res.numerator = pre.numerator
        /\ res.denominator = pre.denominator * rhs.i

\* the exact result of the operation a utility guards
ExactResult(fn, a, b) ==
    CASE fn = "willMultiplicationOverflow" -> a * b
      [] fn = "willAdditionOverflow" -> a + b
      [] fn = "willSubtractionOverflow" -> a - b

\* C25: for all ints a and b each of willMultiplicationOverflow,
\* willAdditionOverflow and willSubtractionOverflow returns true exactly when
\* the exact product, sum or difference lies outside the int range.
C25_OverflowPredicatesExact ==
    call # NoCall => (call.ret <=> ~InRange(ExactResult(call.fn, call.a, call.b)))

\* C26: on a value with whole == 0, --x and x-- raise the overflow error
\* exactly when numerator == INT_MIN and otherwise, numerator == INT_MAX
\* included, decrement numerator by one without raising.
C26_DecrementOverflowExact ==
    (op \in {"--x", "x--"} /\ pre.whole = 0) =>
        IF pre.numerator = INT_MIN
        THEN err = OVERFLOW_ERROR
        ELSE err = "none" /\ x.numerator = pre.numerator - 1

\* C27: after simplify completes on a value whose denominator is not zero,
\* the sign layout is canonical: with whole # 0 the remainder is proper,
\* 0 <= numerator < denominator, and with whole == 0 the denominator is
\* positive, so that the sign of the value is the sign of numerator.
C27_CanonicalSign ==
    (op = "SimplifyFrac" /\ err = "none" /\ pre.denominator # 0) =>
        /\ x.whole # 0 => (0 <= x.numerator /\ x.numerator < x.denominator)
        /\ x.whole = 0 => x.denominator > 0

FracCompoundOps == {"x+=f", "x-=f", "x*=f", "x/=f"}

IntCompoundOps == {"x+=n", "x-=n", "x*=n", "x/=n"}

\* the non-mutating operator of a compound assignment, applied to a and r
NonMutating(cg, o, a, r) ==
    CASE o = "x+=f" -> operatorPlus_Frac(cg, a, r.f)
      [] o = "x-=f" -> operatorMinus_Frac(cg, a, r.f)
      [] o = "x*=f" -> operatorTimes_Frac(cg, a, r.f)
      [] o = "x/=f" -> operatorDiv_Frac(cg, a, r.f)
      [] o = "x+=n" -> operatorPlus_int(cg, a, r.i)
      [] o = "x-=n" -> operatorMinus_int(cg, a, r.i)
      [] o = "x*=n" -> operatorTimes_int(cg, a, r.i)
      [] o = "x/=n" -> operatorDiv_int(cg, a, r.i)

\* C28: where a op b succeeds, for op one of +, -, *, / and b a Frac or an
\* int, the value a op= b leaves in a has the numerator and the denominator
\* of a op b computed from a's prior state, and compares equal to it.
C28_CompoundMatchesOperator ==
    (/\ op \in FracCompoundOps \cup IntCompoundOps
     /\ \A cg \in Codegen(build) : NonMutating(cg, op, pre, rhs).err = "none")
        => /\ err = "none"
           /\ \E cg \in Codegen(build) :
                 /\ x.numerator = NonMutating(cg, op, pre, rhs).f.numerator
                 /\ x.denominator = NonMutating(cg, op, pre, rhs).f.denominator
                 /\ operatorEq(x, NonMutating(cg, op, pre, rhs).f)

\* C29: when parsing a text into an existing object fails with the format,
\* the zero-divisor or the overflow error, the object's whole, numerator and
\* denominator are what they were before the parse began.
C29_FailedParseKeepsObject ==
    (/\ op = "x=text"
     /\ err \in {INVALID_STRING_PARAMETER_ERROR, ZERO_DIVISOR_ERROR, OVERFLOW_ERROR})
        => x = pre

\* C30: where no step overflows, the value (whole * denominator + numerator)
\* / denominator of -x is the negative of that of x, whole # 0 included.
C30_NegationIsAdditiveInverse ==
    (/\ op = "-x"
     /\ err = "none"
     /\ pre.denominator # 0
     /\ pre.whole # INT_MIN /\ pre.numerator # INT_MIN
     /\ InRange(pre.whole * pre.denominator)
     /\ InRange(FullNumerator(pre)))
        => /\ res.denominator = pre.denominator
           /\ FullNumerator(res) = -FullNumerator(pre)
====
